---- MODULE Spec2Model ----
(***************************************************************************)
(* A model of src/avr.py (HotkeyService): the key-event handlers of the    *)
(* detection thread, the bounded processing_queue, the dispatcher thread   *)
(* (_process_queue), the ThreadPoolExecutor's workers and the completion   *)
(* callback (_on_analysis_complete) with its knowledge-file append.        *)
(*                                                                         *)
(* Time is counted in ticks of 0.25 s, and the model keeps ages instead of  *)
(* timestamps: since_trigger is time.time() - self.last_trigger_time, as   *)
(* _on_press computes it, and saturates at Horizon ticks.  A thread is 0   *)
(* (the dispatcher) or 1..max_workers (a pool worker).                     *)
(***************************************************************************)
EXTENDS Integers, Sequences, FiniteSets, TLC

VARIABLES
    shortcut,             \* the parsed hotkey argument of __init__ (--shortcut)
    held,                 \* the keys physically down, as the listener reported them
    current_keys,         \* self.current_keys
    since_trigger,        \* time.time() - self.last_trigger_time
    cooldown,             \* self.TRIGGER_COOLDOWN
    detPc,                \* detection thread: "idle" | "put" (inside Queue.put)
    put_wait,             \* time.time() - current_time while _on_press is in put
    pending,              \* the (content, source) tuple being put
    det_cues,             \* cues played by the key handler now running / last run
    det_callback,         \* the callback it invoked and what the capture returned
    last_match,           \* <<age, fired>> of the latest key-down that matched a chord,
                          \* kept while its age is less than the cooldown
    next_id,              \* number of captures made so far + 1
    maxsize,              \* self.processing_queue.maxsize
    processing_queue,     \* self.processing_queue
    work_queue,           \* self.executor._work_queue
    fut,                  \* per item: its Future ("none", "pending", "running" or a result)
    cb_reg,               \* per item: _on_analysis_complete is in the future's callbacks
    thr,                  \* per thread: [pc, id]
    handled,              \* per item: number of invocations of _on_analysis_complete
    sink_cues,            \* per item: cues played by _on_analysis_complete
    knowledge_file,       \* the knowledge file: the f.write calls, in order
    knowledge_source_path,\* whether KNOWLEDGE_SOURCE_PATH is set
    accepted,             \* items inserted into processing_queue, in order
    rejected,             \* items whose put raised queue.Full
    submitted,            \* items handed to executor.submit, in order
    lost,                 \* items taken from the queue whose submit raised
    shutdown,             \* self.executor._shutdown (set by start() on interrupt)
    exited                \* the process has exited

vars == <<shortcut, held, current_keys, since_trigger, cooldown, detPc, put_wait,
          pending, det_cues, det_callback, last_match, next_id, maxsize, processing_queue,
          work_queue, fut, cb_reg, thr, handled, sink_cues, knowledge_file,
          knowledge_source_path, accepted, rejected, submitted, lost,
          shutdown, exited>>

(***************************************************************************)
(* Program constants                                                       *)
(***************************************************************************)
MAX_QUEUE_SIZE == 10       \* self.MAX_QUEUE_SIZE
max_workers == 3           \* ThreadPoolExecutor(max_workers=3)
TRIGGER_COOLDOWN == 2      \* 0.5 s
PUT_TIMEOUT == 4           \* put(..., timeout=1): 1 s

(***************************************************************************)
(* Bounds of the model                                                     *)
(***************************************************************************)
QueueBound == 2            \* queue capacity explored by SpecGate
MaxItems == 3              \* captures explored by SpecGate
SinkItems == 2             \* captures explored by Spec
LiveItems == 1             \* captures explored by SpecLive
DetectorItems == 2         \* captures explored by SpecDetector
Horizon == 4               \* ages saturate here ("4 ticks ago or earlier")
RapidItems == 15           \* captures explored by SpecRapid
StopItems == 2             \* captures explored by SpecStop
PoolItems == 4             \* captures explored by SpecPool

Dispatcher == 0

\* mutant of Workers: the pool has one thread more
WorkersPlusOne == 1..(max_workers + 1)

Workers == 1..max_workers
Threads == {Dispatcher} \cup Workers

\* keyboard.KeyCode events carry .char; keyboard.Key events do not
CharKeys == {"x", "y", "z"}
NamedKeys == {"cmd", "shift"}
AllKeys == CharKeys \cup NamedKeys

None == <<>>

\* _parse_hotkey of the default "command+x" / "cmd+x", and of "x+y"
DefaultShortcut == {"cmd", "x"}
OtherShortcut == {"x", "y"}

screenshot_hotkey == shortcut
clipboard_hotkey == {"cmd", "z"}
hotkey == shortcut

\* no callback invoked by the key handler
NoCallback == [name |-> "none", capture |-> ""]

Ids == DOMAIN fut

(***************************************************************************)
(* Helpers                                                                 *)
(***************************************************************************)
Item(id, source) == [id |-> id, source |-> source]
NoItem == Item(0, "")

NoFuture == [state |-> "none", content |-> "", success |-> FALSE]
Future(state) == [state |-> state, content |-> "", success |-> FALSE]
Finished(content, success) ==
    [state |-> "finished", content |-> content, success |-> success]

Idle(t) == [pc |-> IF t = Dispatcher THEN "get" ELSE "idle", id |-> 0]

\* _on_press / _on_release: what a key event adds to or discards from current_keys
KeyName(key) ==
    IF key \in CharKeys THEN {key}
    ELSE IF key = "cmd" THEN {"cmd"}
    ELSE {}

\* mutant of CooldownElapsed: the cooldown is not tested
CooldownIgnored == TRUE

\* _on_press: current_time - self.last_trigger_time > self.TRIGGER_COOLDOWN
CooldownElapsed == since_trigger > cooldown

\* an age one tick later
Older(age, cap) == IF age < cap THEN age + 1 ELSE cap

\* mutant of MatchedChord: the two callbacks are exchanged
MatchedChordSwapped(keys) ==
    IF keys = screenshot_hotkey THEN "clipboard"
    ELSE IF keys = clipboard_hotkey THEN "screenshot"
    ELSE "none"

\* _on_press: the if / elif over the two hotkeys
MatchedChord(keys) ==
    IF keys = screenshot_hotkey THEN "screenshot"
    ELSE IF keys = clipboard_hotkey THEN "clipboard"
    ELSE "none"

\* _on_release: if not any(k in self.current_keys for k in self.hotkey): clear
AfterRelease(keys) ==
    IF keys \cap hotkey = {} THEN {} ELSE keys

\* mutant of QueueFull: the bound is tested off by one
QueueFullOffByOne(q) == Len(q) > maxsize

\* Queue.put: while self._qsize() >= self.maxsize: wait
QueueFull(q) == Len(q) >= maxsize

\* mutant of QueuePut: the item is put at the front (appendleft)
QueuePutFront(q, item) == <<item>> \o q

\* Queue._put / Queue._get on the deque
QueuePut(q, item) == Append(q, item)
QueueFront(q) == Head(q)
QueueRest(q) == Tail(q)

\* The outcomes of the capture a callback makes
Captures(chord) ==
    IF chord = "screenshot" THEN {"ok", "fail"}      \* _take_screenshot
    ELSE {"ok", "empty", "raise"}                    \* pyperclip.paste

\* mutant of HasContent: the content is not tested
HasContentAlways(capture) == TRUE

\* _screenshot_callback: if base64_img; _clipboard_callback: if content.strip()
\* (and no exception from paste)
HasContent(capture) == capture = "ok"

\* The outcomes of _process_content_item's body
Outcomes(source) ==
    IF source = "screenshot" THEN {"ok", "api_fail", "raise"}
    ELSE {"ok", "raise"}

\* _process_content_item together with _analyze_image: the (analysis, success) tuple
TaskResult(source, outcome) ==
    IF outcome = "raise" THEN Finished("exception", FALSE)
    ELSE IF source = "clipboard" THEN Finished("clipboard", TRUE)
    ELSE IF outcome = "api_fail" THEN Finished("api_error", TRUE)
    ELSE Finished("analysis", TRUE)

\* mutant of FirstCue: the two cues are exchanged
FirstCueSwapped(success) == IF success THEN "error" ELSE "complete"

\* _on_analysis_complete: the first play_sound
FirstCue(success) == IF success THEN "complete" ELSE "error"

(***************************************************************************)
(* Initial state: HotkeyService.__init__                                   *)
(***************************************************************************)
InitWith(capacity, cool, limit, stores, shortcuts) ==
    /\ shortcut \in shortcuts
    /\ held = {}
    /\ current_keys = {}
    /\ since_trigger = Horizon
    /\ cooldown = cool
    /\ detPc = "idle"
    /\ put_wait = 0
    /\ pending = NoItem
    /\ det_cues = <<>>
    /\ det_callback = NoCallback
    /\ last_match = None
    /\ next_id = 1
    /\ maxsize = capacity
    /\ processing_queue = <<>>
    /\ work_queue = <<>>
    /\ fut = [i \in 1..limit |-> NoFuture]
    /\ cb_reg = [i \in 1..limit |-> FALSE]
    /\ thr = [t \in Threads |-> Idle(t)]
    /\ handled = [i \in 1..limit |-> 0]
    /\ sink_cues = [i \in 1..limit |-> <<>>]
    /\ knowledge_file = <<>>
    /\ knowledge_source_path \in stores
    /\ accepted = <<>>
    /\ rejected = {}
    /\ submitted = <<>>
    /\ lost = {}
    /\ shutdown = FALSE
    /\ exited = FALSE

(***************************************************************************)
(* The detection thread: _on_press, _on_release and the callbacks          *)
(***************************************************************************)
\* mutant of HandlerReturns: current_keys is not cleared
HandlerReturnsKeepsKeys ==
    /\ since_trigger' = put_wait
    /\ current_keys' = current_keys
    /\ detPc' = "idle"
    /\ put_wait' = 0
    /\ pending' = NoItem

\* the end of _on_press after a callback returned
HandlerReturns ==
    /\ since_trigger' = put_wait
    /\ current_keys' = {}
    /\ detPc' = "idle"
    /\ put_wait' = 0
    /\ pending' = NoItem

OnPress(key) ==
    /\ ~shutdown /\ ~exited
    /\ detPc = "idle"
    /\ held' = held \cup {key}
    /\ LET keys == current_keys \cup KeyName(key)
           chord == MatchedChord(keys)
       IN IF ~(CooldownElapsed /\ chord # "none")
          THEN /\ current_keys' = keys
               /\ det_cues' = <<>>
               /\ det_callback' = NoCallback
               /\ last_match' = IF chord # "none" THEN <<0, FALSE>> ELSE last_match
               /\ UNCHANGED <<since_trigger, detPc, put_wait, pending, next_id>>
          ELSE /\ last_match' = <<0, TRUE>>
               /\ \E capture \in Captures(chord) :
                    /\ det_callback' = [name |-> chord, capture |-> capture]
                    /\ IF HasContent(capture)
                        THEN \* _process_content is entered: the handler blocks in put
                             /\ next_id \in Ids
                             /\ pending' = Item(next_id, chord)
                             /\ next_id' = next_id + 1
                             /\ detPc' = "put"
                             /\ current_keys' = keys
                             /\ det_cues' = <<"start">>
                             /\ UNCHANGED <<since_trigger, put_wait>>
                        ELSE /\ det_cues' = IF chord = "screenshot" THEN <<"start">>
                                            ELSE <<"start", "error">>
                             /\ HandlerReturns
                             /\ UNCHANGED next_id
    /\ UNCHANGED <<cooldown, shortcut, maxsize, processing_queue, work_queue, fut, cb_reg,
                   thr, handled, sink_cues, knowledge_file, knowledge_source_path,
                   accepted, rejected, submitted, lost, shutdown, exited>>

OnRelease(key) ==
    /\ ~shutdown /\ ~exited
    /\ detPc = "idle"
    /\ held' = held \ {key}
    /\ current_keys' = AfterRelease(current_keys \ KeyName(key))
    /\ det_cues' = <<>>
    /\ det_callback' = NoCallback
    /\ UNCHANGED <<since_trigger, cooldown, shortcut, detPc, put_wait, pending,
                   last_match, next_id, maxsize, processing_queue, work_queue, fut,
                   cb_reg, thr, handled, sink_cues, knowledge_file,
                   knowledge_source_path, accepted, rejected, submitted, lost,
                   shutdown, exited>>

\* _process_content: put found room (at once, or within the timeout)
PutInsert ==
    /\ ~exited
    /\ detPc = "put"
    /\ ~QueueFull(processing_queue)
    /\ processing_queue' = QueuePut(processing_queue, pending)
    /\ accepted' = Append(accepted, pending.id)
    /\ HandlerReturns
    /\ UNCHANGED <<held, cooldown, shortcut, det_cues, det_callback, last_match, next_id, maxsize, work_queue,
                   fut, cb_reg, thr, handled, sink_cues, knowledge_file,
                   knowledge_source_path, rejected, submitted, lost, shutdown, exited>>

\* mutant of PutFull: the item is appended to the backlog all the same
PutFullGrows ==
    /\ ~exited
    /\ detPc = "put"
    /\ QueueFull(processing_queue)
    /\ put_wait >= PUT_TIMEOUT
    /\ rejected' = rejected \cup {pending.id}
    /\ processing_queue' = QueuePut(processing_queue, pending)
    /\ det_cues' = Append(det_cues, "error")
    /\ UNCHANGED det_callback
    /\ HandlerReturns
    /\ UNCHANGED <<held, cooldown, shortcut, last_match, next_id, maxsize,
                   work_queue, fut, cb_reg, thr, handled, sink_cues, knowledge_file,
                   knowledge_source_path, accepted, submitted, lost, shutdown, exited>>

\* _process_content: put raised queue.Full after the timeout
PutFull ==
    /\ ~exited
    /\ detPc = "put"
    /\ QueueFull(processing_queue)
    /\ put_wait >= PUT_TIMEOUT
    /\ rejected' = rejected \cup {pending.id}
    /\ det_cues' = Append(det_cues, "error")
    /\ UNCHANGED det_callback
    /\ HandlerReturns
    /\ UNCHANGED <<held, cooldown, shortcut, last_match, next_id, maxsize, processing_queue,
                   work_queue, fut, cb_reg, thr, handled, sink_cues, knowledge_file,
                   knowledge_source_path, accepted, submitted, lost, shutdown, exited>>

\* the clock: one tick passes
Tick ==
    /\ ~exited
    /\ since_trigger' = Older(since_trigger, Horizon)
    /\ put_wait' = IF detPc = "put" THEN Older(put_wait, PUT_TIMEOUT) ELSE put_wait
    /\ last_match' = IF last_match = None \/ last_match[1] + 1 >= cooldown THEN None
                     ELSE <<last_match[1] + 1, last_match[2]>>
    /\ UNCHANGED <<held, current_keys, cooldown, shortcut, detPc, pending, det_cues, det_callback, next_id, maxsize,
                   processing_queue, work_queue, fut, cb_reg, thr, handled, sink_cues,
                   knowledge_file, knowledge_source_path, accepted, rejected,
                   submitted, lost, shutdown, exited>>

(***************************************************************************)
(* The dispatcher thread: _process_queue                                   *)
(***************************************************************************)
\* mutant of SubmitRaises: submit still schedules after shutdown
SubmitAfterShutdown == FALSE

\* ThreadPoolExecutor.submit: raises RuntimeError once the executor is shut down
SubmitRaises == shutdown

\* get() returned an item (its content is never empty: both callbacks check it
\* before _process_content), then executor.submit
Dispatch ==
    /\ ~exited
    /\ thr[Dispatcher].pc = "get"
    /\ processing_queue # <<>>
    /\ LET item == QueueFront(processing_queue)
       IN /\ processing_queue' = QueueRest(processing_queue)
          /\ IF SubmitRaises
             THEN \* except Exception: print, sleep(1), loop again
                  /\ lost' = lost \cup {item.id}
                  /\ UNCHANGED <<work_queue, fut, thr, submitted>>
             ELSE /\ work_queue' = Append(work_queue, item)
                  /\ fut' = [fut EXCEPT ![item.id] = Future("pending")]
                  /\ submitted' = Append(submitted, item.id)
                  /\ thr' = [thr EXCEPT ![Dispatcher] = [pc |-> "reg", id |-> item.id]]
                  /\ UNCHANGED lost
    /\ UNCHANGED <<held, current_keys, since_trigger, cooldown, shortcut, detPc, put_wait,
                   pending, det_cues, det_callback, last_match, next_id, maxsize, cb_reg, handled,
                   sink_cues, knowledge_file, knowledge_source_path, accepted,
                   rejected, shutdown, exited>>

\* Future.add_done_callback: appended to the callbacks unless the future is
\* already finished, in which case the caller runs the callback itself
AddDoneCallback ==
    /\ ~exited
    /\ thr[Dispatcher].pc = "reg"
    /\ LET i == thr[Dispatcher].id
       IN IF fut[i].state = "finished"
          THEN /\ thr' = [thr EXCEPT ![Dispatcher].pc = "cb"]
               /\ UNCHANGED cb_reg
          ELSE /\ cb_reg' = [cb_reg EXCEPT ![i] = TRUE]
               /\ thr' = [thr EXCEPT ![Dispatcher] = Idle(Dispatcher)]
    /\ UNCHANGED <<held, current_keys, since_trigger, cooldown, shortcut, detPc, put_wait,
                   pending, det_cues, det_callback, last_match, next_id, maxsize, processing_queue,
                   work_queue, fut, handled, sink_cues, knowledge_file,
                   knowledge_source_path, accepted, rejected, submitted, lost,
                   shutdown, exited>>

(***************************************************************************)
(* The pool's workers: concurrent.futures.thread._worker                   *)
(***************************************************************************)
\* the thread that takes the next work item: pool threads are interchangeable,
\* so the idle thread of least index takes it
Taker(w) == thr[w].pc = "idle" /\ \A v \in Workers : v < w => thr[v].pc # "idle"

WorkerTake(w) ==
    /\ ~exited
    /\ Taker(w)
    /\ work_queue # <<>>
    /\ LET item == Head(work_queue)
       IN /\ work_queue' = Tail(work_queue)
          /\ fut' = [fut EXCEPT ![item.id] = Future("running")]
          /\ thr' = [thr EXCEPT ![w] = [pc |-> item.source, id |-> item.id]]
    /\ UNCHANGED <<held, current_keys, since_trigger, cooldown, shortcut, detPc, put_wait,
                   pending, det_cues, det_callback, last_match, next_id, maxsize, processing_queue,
                   cb_reg, handled, sink_cues, knowledge_file, knowledge_source_path,
                   accepted, rejected, submitted, lost, shutdown, exited>>

\* mutant of TaskReturn: the worker runs the callback whether or not it is
\* registered yet
TaskReturnAlwaysCalls(w) ==
    /\ ~exited
    /\ thr[w].pc \in {"screenshot", "clipboard"}
    /\ LET i == thr[w].id
       IN /\ \E outcome \in Outcomes(thr[w].pc) :
                fut' = [fut EXCEPT ![i] = TaskResult(thr[w].pc, outcome)]
          /\ thr' = [thr EXCEPT ![w] = [pc |-> "cb", id |-> i]]
    /\ UNCHANGED <<held, current_keys, since_trigger, cooldown, shortcut, detPc, put_wait,
                   pending, det_cues, det_callback, last_match, next_id, maxsize, processing_queue,
                   work_queue, cb_reg, handled, sink_cues, knowledge_file,
                   knowledge_source_path, accepted, rejected, submitted, lost,
                   shutdown, exited>>

\* _process_content_item returns; Future.set_result, then the registered callbacks
TaskReturn(w) ==
    /\ ~exited
    /\ thr[w].pc \in {"screenshot", "clipboard"}
    /\ LET i == thr[w].id
       IN /\ \E outcome \in Outcomes(thr[w].pc) :
                fut' = [fut EXCEPT ![i] = TaskResult(thr[w].pc, outcome)]
          /\ thr' = [thr EXCEPT ![w] = IF cb_reg[i] THEN [pc |-> "cb", id |-> i]
                                       ELSE Idle(w)]
    /\ UNCHANGED <<held, current_keys, since_trigger, cooldown, shortcut, detPc, put_wait,
                   pending, det_cues, det_callback, last_match, next_id, maxsize, processing_queue,
                   work_queue, cb_reg, handled, sink_cues, knowledge_file,
                   knowledge_source_path, accepted, rejected, submitted, lost,
                   shutdown, exited>>

(***************************************************************************)
(* The completion callback: _on_analysis_complete, on thread t             *)
(***************************************************************************)
\* future.result(), the first cue, the print; then either _append_to_knowledge
\* is entered and the file opened, or the "error" cue is played
CbStart(t) ==
    /\ ~exited
    /\ thr[t].pc = "cb"
    /\ LET i == thr[t].id
           first == FirstCue(fut[i].success)
       IN /\ handled' = [handled EXCEPT ![i] = @ + 1]
          /\ IF knowledge_source_path
             THEN /\ sink_cues' = [sink_cues EXCEPT ![i] = Append(@, first)]
                  /\ thr' = [thr EXCEPT ![t].pc = "w1"]
             ELSE /\ sink_cues' = [sink_cues EXCEPT ![i] = @ \o <<first, "error">>]
                  /\ thr' = [thr EXCEPT ![t] = Idle(t)]
    /\ UNCHANGED <<held, current_keys, since_trigger, cooldown, shortcut, detPc, put_wait,
                   pending, det_cues, det_callback, last_match, next_id, maxsize, processing_queue,
                   work_queue, fut, cb_reg, knowledge_file, knowledge_source_path,
                   accepted, rejected, submitted, lost, shutdown, exited>>

\* _append_to_knowledge: one f.write
WriteStep(pc) == IF pc = "w1" THEN 1 ELSE IF pc = "w2" THEN 2 ELSE 3
AfterWrite(t) ==
    IF thr[t].pc = "w1" THEN [thr[t] EXCEPT !.pc = "w2"]
    ELSE IF thr[t].pc = "w2" THEN [thr[t] EXCEPT !.pc = "w3"]
    ELSE Idle(t)

\* the three f.write calls; after the last, the file is closed and the
\* "complete" cue played
Write(t) ==
    /\ ~exited
    /\ thr[t].pc \in {"w1", "w2", "w3"}
    /\ LET i == thr[t].id
       IN /\ knowledge_file' = Append(knowledge_file, <<i, WriteStep(thr[t].pc)>>)
          /\ sink_cues' = IF thr[t].pc = "w3"
                          THEN [sink_cues EXCEPT ![i] = Append(@, "complete")]
                          ELSE sink_cues
          /\ thr' = [thr EXCEPT ![t] = AfterWrite(t)]
    /\ UNCHANGED <<held, current_keys, since_trigger, cooldown, shortcut, detPc, put_wait,
                   pending, det_cues, det_callback, last_match, next_id, maxsize, processing_queue,
                   work_queue, fut, cb_reg, handled, knowledge_source_path, accepted,
                   rejected, submitted, lost, shutdown, exited>>

(***************************************************************************)
(* start(): the interrupt, executor.shutdown(wait=False), sys.exit         *)
(***************************************************************************)
Shutdown ==
    /\ ~shutdown
    /\ shutdown' = TRUE
    /\ UNCHANGED <<held, current_keys, since_trigger, cooldown, shortcut, detPc, put_wait,
                   pending, det_cues, det_callback, last_match, next_id, maxsize, processing_queue,
                   work_queue, fut, cb_reg, thr, handled, sink_cues, knowledge_file,
                   knowledge_source_path, accepted, rejected, submitted, lost, exited>>

\* the interpreter exits once the pool's threads have drained the work queue
\* (they are joined at exit); the daemon threads end with it
Exit ==
    /\ shutdown /\ ~exited
    /\ work_queue = <<>>
    /\ \A w \in Workers : thr[w].pc = "idle"
    /\ exited' = TRUE
    /\ UNCHANGED <<held, current_keys, since_trigger, cooldown, shortcut, detPc, put_wait,
                   pending, det_cues, det_callback, last_match, next_id, maxsize, processing_queue,
                   work_queue, fut, cb_reg, thr, handled, sink_cues, knowledge_file,
                   knowledge_source_path, accepted, rejected, submitted, lost, shutdown>>

(***************************************************************************)
(* Specifications.  Each explores the whole of the threads it names; the   *)
(* threads it leaves out are threads that are not scheduled.               *)
(***************************************************************************)
\* Spec: a screenshot service with the source's queue capacity, from key event
\* to knowledge file, with the interrupt
Init == InitWith(MAX_QUEUE_SIZE, TRIGGER_COOLDOWN, SinkItems, BOOLEAN, {DefaultShortcut})

Next ==
    \/ \E key \in screenshot_hotkey : OnPress(key)
    \/ \E key \in screenshot_hotkey : OnRelease(key)
    \/ PutInsert
    \/ Tick
    \/ Dispatch
    \/ AddDoneCallback
    \/ \E w \in Workers : WorkerTake(w)
    \/ \E w \in Workers : TaskReturn(w)
    \/ \E t \in Threads : CbStart(t)
    \/ \E t \in Threads : Write(t)
    \/ Shutdown
    \/ Exit

Spec == Init /\ [][Next]_vars

\* SpecLive: Spec without the interrupt, every thread of the pipeline scheduled
\* fairly and every analysis call returning
NextLive ==
    \/ \E key \in screenshot_hotkey : OnPress(key)
    \/ \E key \in screenshot_hotkey : OnRelease(key)
    \/ PutInsert
    \/ Tick
    \/ Dispatch
    \/ AddDoneCallback
    \/ \E w \in Workers : WorkerTake(w)
    \/ \E w \in Workers : TaskReturn(w)
    \/ \E t \in Threads : CbStart(t)
    \/ \E t \in Threads : Write(t)

\* a step of the dispatcher or of a pool thread
PipelineStep ==
    \/ Dispatch
    \/ AddDoneCallback
    \/ \E w \in Workers : WorkerTake(w)
    \/ \E w \in Workers : TaskReturn(w)
    \/ \E t \in Threads : CbStart(t)
    \/ \E t \in Threads : Write(t)

\* while a thread of the pipeline can run, one of them does
Fairness == WF_vars(PipelineStep)

InitLive == InitWith(MAX_QUEUE_SIZE, TRIGGER_COOLDOWN, LiveItems, BOOLEAN, {DefaultShortcut})

SpecLive == InitLive /\ [][NextLive]_vars /\ Fairness

\* SpecGate: a queue of capacity QueueBound that fills, no knowledge store
InitGate == InitWith(QueueBound, TRIGGER_COOLDOWN, MaxItems, {FALSE}, {DefaultShortcut})

NextGate ==
    \/ \E key \in screenshot_hotkey : OnPress(key)
    \/ \E key \in screenshot_hotkey : OnRelease(key)
    \/ PutInsert
    \/ PutFull
    \/ Tick
    \/ Dispatch
    \/ AddDoneCallback
    \/ \E w \in Workers : WorkerTake(w)
    \/ \E w \in Workers : TaskReturn(w)
    \/ \E t \in Threads : CbStart(t)

SpecGate == InitGate /\ [][NextGate]_vars

\* SpecDetector: the detection thread alone, every key
InitDetector == InitWith(MAX_QUEUE_SIZE, TRIGGER_COOLDOWN, DetectorItems, {FALSE}, {DefaultShortcut})

NextDetector ==
    \/ \E key \in AllKeys : OnPress(key)
    \/ \E key \in AllKeys : OnRelease(key)
    \/ PutInsert
    \/ Tick

SpecDetector == InitDetector /\ [][NextDetector]_vars

\* SpecChords: the detection thread alone, started with the default shortcut
\* or with a shortcut that shares no key with the clipboard hotkey
InitChords == InitWith(MAX_QUEUE_SIZE, TRIGGER_COOLDOWN, DetectorItems, {FALSE},
                       {DefaultShortcut, OtherShortcut})

NextChords ==
    \/ \E key \in AllKeys : OnPress(key)
    \/ \E key \in AllKeys : OnRelease(key)
    \/ PutInsert
    \/ Tick

SpecChords == InitChords /\ [][NextChords]_vars

\* SpecFire: the detection thread alone with every key and a queue of capacity
\* QueueBound that nothing empties, so that a put is rejected
InitFire == InitWith(QueueBound, TRIGGER_COOLDOWN, MaxItems, {FALSE}, {DefaultShortcut})

NextFire ==
    \/ \E key \in AllKeys : OnPress(key)
    \/ \E key \in AllKeys : OnRelease(key)
    \/ PutInsert
    \/ PutFull
    \/ Tick

SpecFire == InitFire /\ [][NextFire]_vars

\* SpecRapid: RapidItems screenshot triggers with the cooldown disabled (a
\* negative TRIGGER_COOLDOWN: no suppression) and the source's capacity; no
\* analysis call returns
InitRapid == InitWith(MAX_QUEUE_SIZE, 0 - 1, RapidItems, {FALSE}, {DefaultShortcut})

NextRapid ==
    \/ \E key \in screenshot_hotkey : OnPress(key)
    \/ PutInsert
    \/ PutFull
    \/ Tick
    \/ Dispatch
    \/ AddDoneCallback
    \/ \E w \in Workers : WorkerTake(w)

SpecRapid == InitRapid /\ [][NextRapid]_vars

\* SpecStop: the interrupt with the pipeline's threads scheduled fairly and
\* every analysis call returning; no knowledge store
InitStop == InitWith(MAX_QUEUE_SIZE, TRIGGER_COOLDOWN, StopItems, {FALSE}, {DefaultShortcut})

NextStop ==
    \/ \E key \in screenshot_hotkey : OnPress(key)
    \/ \E key \in screenshot_hotkey : OnRelease(key)
    \/ PutInsert
    \/ Tick
    \/ Dispatch
    \/ AddDoneCallback
    \/ \E w \in Workers : WorkerTake(w)
    \/ \E w \in Workers : TaskReturn(w)
    \/ \E t \in Threads : CbStart(t)
    \/ Shutdown
    \/ Exit

SpecStop == InitStop /\ [][NextStop]_vars /\ Fairness

\* SpecPool: more items than pool threads, the tasks returning and their
\* callbacks running; the cooldown is disabled and the queue never fills, so
\* that the clock plays no part and is left out; no knowledge store
InitPool == InitWith(MAX_QUEUE_SIZE, 0 - 1, PoolItems, {FALSE}, {DefaultShortcut})

NextPool ==
    \/ \E key \in screenshot_hotkey : OnPress(key)
    \/ PutInsert
    \/ Dispatch
    \/ AddDoneCallback
    \/ \E w \in Workers : WorkerTake(w)
    \/ \E w \in Workers : TaskReturn(w)
    \/ \E t \in Threads : CbStart(t)

SpecPool == InitPool /\ [][NextPool]_vars

(***************************************************************************)
(* Properties                                                              *)
(***************************************************************************)
Elems(seq) == {seq[k] : k \in 1..Len(seq)}
QueuedIds == {processing_queue[k].id : k \in 1..Len(processing_queue)}
Writers == {t \in Threads : thr[t].pc \in {"w1", "w2", "w3"}}
WrittenIds == {knowledge_file[k][1] : k \in 1..Len(knowledge_file)}

\* C1: in every reachable state the processing queue holds at most its capacity.
C1_GateWithinCapacity == Len(processing_queue) <= maxsize

\* C1 witness: the queue is full while the detection thread is inside put.
C1_FullGateAndPutWaiting == Len(processing_queue) = maxsize /\ detPc = "put"

\* C2: once all RapidItems captures have been put, with the cooldown disabled
\* and no analysis finished, at most MAX_QUEUE_SIZE were accepted and all the
\* others were rejected.
C2_AtMostCapacityAccepted ==
    (next_id > RapidItems /\ detPc = "idle")
        => /\ Len(accepted) <= MAX_QUEUE_SIZE
           /\ rejected = (1..RapidItems) \ Elems(accepted)

\* C3: a put that returns with the queue full and the timeout over rejects the
\* item: the queue is unchanged, the "error" cue is played and the key handler
\* returns; a rejected item is never in the queue, never submitted, and its
\* completion callback never runs.
C3_RejectedIsDropped ==
    /\ [](\A i \in rejected :
            /\ i \notin QueuedIds
            /\ i \notin Elems(submitted)
            /\ fut[i].state = "none"
            /\ handled[i] = 0)
    /\ [][(/\ detPc = "put" /\ detPc' = "idle"
           /\ QueueFull(processing_queue) /\ put_wait >= PUT_TIMEOUT)
          => /\ pending.id \in rejected'
             /\ processing_queue' = processing_queue
             /\ accepted' = accepted
             /\ det_cues'[Len(det_cues')] = "error"]_vars
    /\ [][rejected' # rejected
          => /\ QueueFull(processing_queue) /\ put_wait >= PUT_TIMEOUT
             /\ detPc' = "idle"]_vars

\* C3 witness: an item was rejected and every other item went through the
\* completion callback.
C3_RejectedWhileOthersHandled ==
    \E i \in rejected : \A j \in Ids \ {i} : handled[j] = 1

\* C4: every item that has left the queue was submitted to the executor, once.
C4_NoItemDiscarded ==
    /\ \A i \in Elems(accepted) : i \in QueuedIds \/ i \in Elems(submitted)
    /\ \A j, k \in 1..Len(submitted) : submitted[j] = submitted[k] => j = k

\* C5: with no interrupt and
\* every analysis call returning, every accepted item eventually has its
\* completion callback invoked, and never more than once.
C5_AcceptedHandledOnce ==
    \A i \in 1..LiveItems :
        /\ [](handled[i] <= 1)
        /\ (i \in Elems(accepted)) ~> (handled[i] = 1)

\* C5 witness: every item was accepted and its callback has run.
C5_AllHandled == \A i \in Ids : i \in Elems(accepted) /\ handled[i] = 1

\* a key-down that makes the pressed set equal to a configured chord
MatchStep ==
    \E key \in AllKeys :
        /\ OnPress(key)
        /\ MatchedChord(current_keys) = "none"
        /\ MatchedChord(current_keys \cup KeyName(key)) # "none"

\* C6: of two chord matches less than the cooldown apart, exactly one fires.
C6_ExactlyOneFires ==
    [][(MatchStep /\ last_match # None) => (last_match[2] # last_match'[2])]_vars

\* C6 as amended: of two chord matches less than the cooldown apart at most one
\* fires: exactly one, unless both lie within the cooldown of an earlier
\* trigger, and then none; a match that does not fire changes the pressed set
\* only (no cue, no item, no timestamp).
C6_AtMostOneFires ==
    [][(MatchStep /\ last_match # None)
       => /\ \/ last_match[2] # last_match'[2]
             \/ ~last_match[2] /\ ~last_match'[2] /\ since_trigger <= cooldown
          /\ ~last_match'[2]
               => /\ detPc' = "idle"
                  /\ det_cues' = <<>>
                  /\ UNCHANGED <<since_trigger, next_id, pending, processing_queue,
                                 accepted>>]_vars

\* C6 witness: a trigger fired less than the cooldown ago and a later chord
\* match was suppressed.
C6_SuppressedAfterFired ==
    /\ last_match # None
    /\ ~last_match[2]
    /\ since_trigger < cooldown
    /\ MatchedChord(current_keys) # "none"

\* C7: an item whose analysis call failed has succeeded = false, its callback
\* plays the "error" cue and no "complete" cue, and nothing of it is written.
C7_AnalysisFailureIsFailedResult ==
    \A i \in Ids :
        (fut[i].state = "finished" /\ fut[i].content = "api_error")
            => /\ ~fut[i].success
               /\ sink_cues[i] \in {<<>>, <<"error">>}
               /\ i \notin WrittenIds

\* C8: for a result with succeeded = false the callback plays one "error" cue
\* and nothing else, and appends nothing.
C8_FailedResultErrorCueOnly ==
    \A i \in Ids :
        (fut[i].state = "finished" /\ ~fut[i].success)
            => /\ sink_cues[i] \in {<<>>, <<"error">>}
               /\ i \notin WrittenIds

\* the writes of the file are entry by entry: heading, content, separator of
\* one item, then of the next
EntryByEntry ==
    \A k \in 1..Len(knowledge_file) :
        /\ knowledge_file[k][2] = ((k - 1) % 3) + 1
        /\ knowledge_file[k][1] = knowledge_file[k - ((k - 1) % 3)][1]

\* C9: never two threads inside _append_to_knowledge, and the writes of the
\* entries never interleave.
C9_SingleWriter == Cardinality(Writers) <= 1 /\ EntryByEntry

\* C10: the items are submitted in the order they were accepted.
C10_DispatchInAcceptOrder ==
    /\ Len(submitted) <= Len(accepted)
    /\ \A k \in 1..Len(submitted) : submitted[k] = accepted[k]
    /\ \A k \in 1..Len(processing_queue) :
          processing_queue[k].id = accepted[Len(submitted) + k]

\* C10 witness: two items were submitted, and the callback of the second has
\* run while the task of the first is still running.
C10_SecondCompletesFirst ==
    /\ Len(submitted) >= 2
    /\ handled[submitted[2]] = 1
    /\ handled[submitted[1]] = 0
    /\ fut[submitted[1]].state = "running"

\* C11: after the interrupt every task already submitted to the pool still
\* runs to completion, the process not exiting before; nothing more is submitted,
\* and an item taken from the queue or still in it after the interrupt has no
\* future, is run by no worker and never reaches the completion callback.
C11_ShutdownKeepsDispatchedDropsQueued ==
    /\ [](shutdown => <>(\A i \in Elems(submitted) : fut[i].state = "finished"))
    /\ [](exited => \A i \in Elems(submitted) : fut[i].state = "finished")
    /\ [][shutdown => submitted' = submitted]_vars
    /\ [](shutdown => \A i \in QueuedIds \cup lost :
                        /\ i \notin Elems(submitted)
                        /\ fut[i].state = "none"
                        /\ handled[i] = 0
                        /\ \A t \in Threads : thr[t].id # i)

\* C11 witness: after the interrupt a submitted task is still running and an
\* item that was in the queue has been taken and abandoned.
C11_RunningAndAbandoned ==
    /\ shutdown
    /\ \E i \in Elems(submitted) : fut[i].state = "running"
    /\ lost # {}

\* C12: when the two hotkeys share no key, a key-down that makes current_keys
\* equal to one of them invokes that hotkey's callback or none (cooldown), never
\* the other's; and a callback is invoked only at such a key-down.
C12_DisjointChordsFireOwnAction ==
    [][\A key \in AllKeys :
         (OnPress(key) /\ screenshot_hotkey \cap clipboard_hotkey = {})
            => LET keys == current_keys \cup KeyName(key)
               IN /\ keys = screenshot_hotkey
                        => det_callback'.name \in {"none", "screenshot"}
                  /\ keys = clipboard_hotkey
                        => det_callback'.name \in {"none", "clipboard"}
                  /\ det_callback'.name = "screenshot" => keys = screenshot_hotkey
                  /\ det_callback'.name = "clipboard" => keys = clipboard_hotkey]_vars

\* C12 witness: with hotkeys that share no key, the clipboard callback queued
\* its item and the screenshot callback is now putting its own.
C12_BothChordsFired ==
    /\ screenshot_hotkey \cap clipboard_hotkey = {}
    /\ det_callback.name = "screenshot"
    /\ detPc = "put" /\ pending.source = "screenshot"
    /\ Len(processing_queue) = 1 /\ processing_queue[1].source = "clipboard"

\* C13: when the clipboard callback runs and the clipboard is empty, the key
\* handler plays "start" then "error" and returns: no item is created, the
\* queue, the work queue and the futures are unchanged, nothing is submitted.
C13_EmptyClipboardNoItem ==
    [][\A key \in AllKeys :
         (OnPress(key) /\ det_callback' = [name |-> "clipboard", capture |-> "empty"])
            => /\ det_cues' = <<"start", "error">>
               /\ detPc' = "idle"
               /\ pending' = NoItem
               /\ UNCHANGED <<next_id, processing_queue, accepted, rejected,
                              work_queue, fut, submitted>>]_vars

\* C13 witness: the clipboard callback has just run on an empty clipboard.
C13_EmptyClipboardSeen ==
    /\ det_callback = [name |-> "clipboard", capture |-> "empty"]
    /\ det_cues = <<"start", "error">>

\* C14: with no knowledge store, the completion callback of a result with
\* succeeded = true plays "complete" and then one "error", and appends nothing.
C14_SuccessWithoutStore ==
    \A i \in Ids :
        (handled[i] >= 1 /\ fut[i].success /\ ~knowledge_source_path)
            => /\ sink_cues[i] = <<"complete", "error">>
               /\ knowledge_file = <<>>
               /\ \A t \in Threads : thr[t].pc \notin {"w1", "w2", "w3"}

\* C14 witness: no knowledge store, and the callback of a successful result
\* has run.
C14_SuccessHandledWithoutStore ==
    /\ ~knowledge_source_path
    /\ \E i \in Ids : handled[i] = 1 /\ fut[i].success /\ fut[i].content = "analysis"

\* the keys of the configured hotkeys
ChordKeys == screenshot_hotkey \cup clipboard_hotkey

\* C15: a key-up removes the released key from current_keys, and clears
\* current_keys if and only if no key of the screenshot hotkey or of the
\* clipboard hotkey remains in it.
C15_ClearedIffNoChordKeyRemains ==
    [][\A key \in AllKeys :
         OnRelease(key)
            => LET rest == current_keys \ KeyName(key)
               IN current_keys' = IF rest \cap ChordKeys = {} THEN {} ELSE rest]_vars

\* C16: a callback is invoked at a key-down only if the keys physically down
\* (printable and named alike) are then exactly one of the hotkeys, and the
\* cooldown has elapsed.
C16_FiresOnlyOnExactChord ==
    [][\A key \in AllKeys :
         (OnPress(key) /\ det_callback'.name # "none")
            => /\ held' \in {screenshot_hotkey, clipboard_hotkey}
               /\ CooldownElapsed]_vars

\* the key handler returns from a callback: at once (no content) or from put
FireReturns ==
    \/ detPc = "put" /\ detPc' = "idle"
    \/ \E key \in AllKeys :
          OnPress(key) /\ det_callback'.name # "none" /\ detPc' = "idle"

\* C17: when the key handler returns from a callback, whatever the capture and
\* the put did, current_keys is empty and the time since the last trigger is
\* the time the handler took; current_keys stays empty until the next key-down,
\* and a key enters current_keys only by a key-down of that key, so the hotkey
\* matches again only after a key-down of each of its keys.
C17_FireClearsKeysAndStamps ==
    /\ [][FireReturns => /\ current_keys' = {}
                         /\ since_trigger' = put_wait
                         /\ since_trigger' <= PUT_TIMEOUT]_vars
    /\ []((detPc = "idle" /\ det_callback.name # "none") => current_keys = {})
    /\ [][\/ current_keys' \subseteq current_keys
          \/ \E key \in AllKeys :
                OnPress(key) /\ current_keys' \subseteq current_keys \cup {key}]_vars

\* C17 witness: the handler returned from a callback whose put was rejected:
\* the hotkey's keys are still down, the cooldown is already over, and
\* current_keys is empty.
C17_ReturnedAfterRejectedPut ==
    /\ detPc = "idle"
    /\ det_callback.name = "screenshot"
    /\ det_cues = <<"start", "error">>
    /\ rejected # {}
    /\ held = screenshot_hotkey
    /\ since_trigger > cooldown
    /\ current_keys = {}

\* C18: the dispatcher thread never runs the completion callback: it plays no
\* cue of _on_analysis_complete and writes nothing to the knowledge file.
C18_SinkNeverOnDispatcher ==
    [][~(CbStart(Dispatcher) \/ Write(Dispatcher))]_vars

\* C19: after the interrupt the dispatcher loop stops: no item leaves the
\* queue and no submission is attempted.
C19_DispatcherStopsAtShutdown ==
    [][shutdown => /\ Len(processing_queue') >= Len(processing_queue)
                   /\ submitted' = submitted
                   /\ lost' = lost]_vars

\* the items whose task is executing, and the threads executing a task
Running == {i \in Ids : fut[i].state = "running"}
Executing == {t \in Threads : thr[t].pc \in {"screenshot", "clipboard"}}

\* C20: at most max_workers tasks execute at a time, each on its own pool
\* thread; and a submitted item is attempted once: it is in the work queue
\* once, starts running only from pending, and once finished its result stands
\* and it never runs again.
C20_PoolBoundAndOneAttempt ==
    /\ [](/\ Cardinality(Running) <= max_workers
          /\ Cardinality(Executing) = Cardinality(Running)
          /\ Dispatcher \notin Executing
          /\ \A j, k \in 1..Len(work_queue) :
                /\ fut[work_queue[j].id].state = "pending"
                /\ work_queue[j].id = work_queue[k].id => j = k
          /\ \A j, k \in 1..Len(submitted) : submitted[j] = submitted[k] => j = k)
    /\ [][\A i \in Ids :
            /\ (fut'[i].state = "running" /\ fut[i].state # "running")
                  => fut[i].state = "pending"
            /\ (fut'[i].state = "pending" /\ fut[i].state # "pending")
                  => fut[i].state = "none"
            /\ fut[i].state = "finished" => fut'[i] = fut[i]]_vars

\* C20 witness: every pool thread is executing a task, another submitted item
\* waits in the work queue.
C20_PoolSaturated ==
    /\ Cardinality(Running) = max_workers
    /\ work_queue # <<>>

====
